---- MODULE Spec2Model ----
(***************************************************************************)
(* Model of wikitools3/api.py: the APIRequest object (constructor,         *)
(* setMultipart, changeParam, query, queryGen, __longQuery, __getRaw,      *)
(* __parseJSON) and the module functions resultCombine and urlencode.      *)
(*                                                                         *)
(* The module is Python 3 (shebang, f-strings, urllib.request), so the     *)
(* model follows Python 3 semantics: `except None` raises TypeError when   *)
(* an exception reaches it, a dict_keys view is not subscriptable, bytes   *)
(* have no .type attribute, `"error" in <number>` raises TypeError, an     *)
(* HTTPResponse is not seekable and `str in bytes` raises TypeError.       *)
(*                                                                         *)
(* One step of the model is one caller operation or one HTTP exchange      *)
(* together with all the code that runs up to the next exchange, the       *)
(* next yield or the end of the call.                                      *)
(***************************************************************************)
EXTENDS Integers, Sequences, FiniteSets, TLC

VARIABLES
    wiki,    \* the Wiki collaborator's configuration: maxwaittime, maxlag, assertval
    self,    \* the APIRequest object: data, iswrite, multipart, encodeddata, headers, request, sleep
    pc,      \* where control is: "idle" (caller), "query", "gen", "long" (an exchange is pending)
    call,    \* the running (or last) call: its name and its querycontinue argument
    gen,     \* the generator object made by queryGen(): state, reqcopy, last yielded page,
             \* pages asked for and yielded, and the value of ops when it was made
    long,    \* __longQuery: _continues, _generator, total, possiblecontinues, key1, key2, req
    result,  \* outcome of the last call: return / yield / stop / error
    log,     \* exchanges of the running (or last) call, in order
    op,      \* the last step taken
    ops,     \* number of caller operations so far
    user,    \* the parameters the caller supplied (constructor and caller changeParam)
    caught,  \* transport failures caught and retried on self since it was constructed
    rc,      \* resultCombine applied on its own: type, old, new, ret
    ue       \* urlencode applied on its own: query, out, err

vars == <<wiki, self, pc, call, gen, long, result, log, op, ops, user, caught, rc, ue>>

(***************************************************************************)
(* Bounds of the model.                                                    *)
(***************************************************************************)
MaxOps == 2      \* caller operations on one request object (calls of next() apart)
MaxPages == 3    \* calls of next() on one generator
MaxExch == 2     \* HTTP exchanges one call makes for the original request, and for its follow-ups
MaxEntries == 2  \* entries of a property list given to resultCombine
MaxParams == 2   \* parameters of a mapping given to urlencode
MaxLen == 2      \* characters of a string value, elements of a sequence value

(***************************************************************************)
(* Program constants.                                                      *)
(***************************************************************************)
InitialSleep == 5
SleepStep == 5
ShortKeyLen == 11

Min(a, b) == IF a <= b THEN a ELSE b

(***************************************************************************)
(* Parameter values.  A value is a str, an int (kept as its decimal text,  *)
(* which is what str(v) gives) or bytes.                                   *)
(***************************************************************************)
StrV(s) == [t |-> "str", v |-> s]
IntV(s) == [t |-> "int", v |-> s]
BytesV(s) == [t |-> "bytes", v |-> s]

EmptyMap == [k \in {} |-> StrV("")]
Put(d, k, v) == [x \in (DOMAIN d) \cup {k} |-> IF x = k THEN v ELSE d[x]]
Pop(d, k) == [x \in (DOMAIN d) \ {k} |-> d[x]]

(***************************************************************************)
(* urlencode(query, 1).  A str is quoted, an int or float is quoted after  *)
(* str(); any other value reaches `v.type(str)`, which raises              *)
(* AttributeError (bytes, list and tuple have no attribute `type`).  The   *)
(* body is kept as its key=text fields; the model's alphabet has only      *)
(* characters quote_plus leaves alone, and the '&' order is not kept.      *)
(***************************************************************************)
urlencodeRaises(query) == \E k \in DOMAIN query : query[k].t \notin {"str", "int"}
urlencode(query) == [enc |-> "urlencoded", fields |-> [k \in DOMAIN query |-> query[k].v]]

(* poster3's multipart_encode: one part per parameter *)
multipart_encode(query) == [enc |-> "multipart", fields |-> [k \in DOMAIN query |-> query[k].v]]

(* len(self.encodeddata), as the number of encoded fields *)
BodyLen(body) == Cardinality(DOMAIN body.fields)
urlencodedHeaders(body) ==
    [ContentType |-> "application/x-www-form-urlencoded", ContentLength |-> BodyLen(body)]
multipartHeaders(body) ==
    [ContentType |-> "multipart/form-data", ContentLength |-> BodyLen(body)]

(* urllib.request.Request(apibase, encodeddata, headers): a snapshot *)
Request(body, headers) == [data |-> body, headers |-> headers]

(***************************************************************************)
(* APIRequest.__init__                                                     *)
(***************************************************************************)
InitData(w, data, write) ==
    LET d1 == Put(data, "format", StrV("json"))
        d2 == IF w.assertval # "None" /\ write THEN Put(d1, "assert", StrV(w.assertval)) ELSE d1
    IN  IF "maxlag" \notin DOMAIN d2 /\ w.maxlag >= 0
        THEN Put(d2, "maxlag", IntV(ToString(w.maxlag))) ELSE d2

APIRequestRaises(w, data, write, multipart) ==
    ~multipart /\ urlencodeRaises(InitData(w, data, write))

APIRequest(w, data, write, multipart) ==
    LET d == InitData(w, data, write)
        body == IF multipart THEN multipart_encode(d) ELSE urlencode(d)
        hdrs == IF multipart THEN multipartHeaders(body) ELSE urlencodedHeaders(body)
    IN  [sleep |-> InitialSleep, data |-> d, iswrite |-> write, multipart |-> multipart,
         encodeddata |-> body, headers |-> hdrs, request |-> Request(body, hdrs)]

(***************************************************************************)
(* APIRequest.setMultipart: re-encodes body and headers, but does not      *)
(* rebuild self.request.                                                   *)
(***************************************************************************)
setMultipartRaises(o, multipart) == ~multipart /\ urlencodeRaises(o.data)

setMultipart(o, multipart) ==
    LET o1 == [o EXCEPT !.multipart = multipart]
        body == IF multipart THEN multipart_encode(o.data) ELSE urlencode(o.data)
        hdrs == IF multipart THEN multipartHeaders(body) ELSE urlencodedHeaders(body)
    IN  IF setMultipartRaises(o, multipart) THEN o1
        ELSE [o1 EXCEPT !.encodeddata = body, !.headers = hdrs]

(***************************************************************************)
(* APIRequest.changeParam: err is "" or the exception raised; obj is the   *)
(* object afterwards (the parameter is stored before the encoding runs).   *)
(***************************************************************************)
FormatGuardNone(param) == FALSE

FormatGuard(param) == param = "format"

changeParam(o, param, value) ==
    IF FormatGuard(param) THEN [obj |-> o, err |-> "APIError"]
    ELSE LET o1 == [o EXCEPT !.data = Put(o.data, param, value)]
             body == IF o.multipart THEN multipart_encode(o1.data) ELSE urlencode(o1.data)
             hdrs == IF o.multipart THEN multipartHeaders(body) ELSE urlencodedHeaders(body)
         IN  IF ~o.multipart /\ urlencodeRaises(o1.data)
             THEN [obj |-> o1, err |-> "AttributeError"]
             ELSE [obj |-> [o1 EXCEPT !.encodeddata = body, !.headers = hdrs,
                                      !.request = Request(body, hdrs)],
                   err |-> ""]

(***************************************************************************)
(* Response payloads.  kind is the shape json.loads gives ("garbage": the  *)
(* body does not parse); an object may carry a modern `continue` mapping   *)
(* (cont, <<>> when absent), a legacy `query-continue` mapping (qc, in     *)
(* iteration order, <<>> when absent) and a `query` section (q).           *)
(* An entry of a list is the tuple of its items, in the entry's own field  *)
(* order: tuple(entry.items()).                                            *)
(***************************************************************************)
NoQ == [hasquery |-> FALSE, lists |-> [k \in {} |-> <<>>],
        haspages |-> FALSE, pages |-> [k \in {} |-> <<>>]]
EntA == << <<"ns", "6">>, <<"title", "A">> >>
EntArev == << <<"title", "A">>, <<"ns", "6">> >>
EntB == << <<"ns", "6">>, <<"title", "B">> >>
PagesQ(images) == [hasquery |-> TRUE, lists |-> [k \in {} |-> <<>>], haspages |-> TRUE,
                   pages |-> [p \in {"1"} |-> [t \in {"images"} |-> images]]]
ListQ(items) == [hasquery |-> TRUE, lists |-> [k \in {"allpages"} |-> items],
                 haspages |-> FALSE, pages |-> [k \in {} |-> <<>>]]

Payload(kind, code, lag, cont, qc, q) ==
    [kind |-> kind, code |-> code, lag |-> lag, cont |-> cont, qc |-> qc, q |-> q]
NoResp == Payload("none", "", 0, <<>>, <<>>, NoQ)

Lags == {6}
Cont1 == << <<"continue", StrV("gap")>>, <<"gapcontinue", StrV("B")>> >>
Cont2 == << <<"continue", StrV("img")>> >>
QC(outer, inner, val) == [key |-> outer, keys |-> << [key |-> inner, val |-> val] >>]
QcSingle == << QC("images", "imcontinue", StrV("foo")) >>
QcTwoInt == << QC("images", "imcontinue", IntV("7")), QC("categories", "clcontinue", StrV("x")) >>
QcTwoStr == << QC("allpages", "gapcontinue", StrV("B")), QC("images", "imcontinue", StrV("foo")) >>
QcTwoLong == << QC("allpages", "gapcontinue", IntV("3")), QC("images", "gimcontinue", IntV("4")) >>

Responses ==
    {Payload("obj", "", 0, <<>>, <<>>, PagesQ(<<EntArev, EntB>>)),
     Payload("obj", "", 0, <<>>, <<>>, ListQ(<<EntB>>)),
     Payload("emptyobj", "", 0, <<>>, <<>>, NoQ),
     Payload("emptylist", "", 0, <<>>, <<>>, NoQ),
     Payload("number", "", 0, <<>>, <<>>, NoQ),
     Payload("str", "", 0, <<>>, <<>>, NoQ),
     Payload("garbage", "", 0, <<>>, <<>>, NoQ),
     Payload("garbage", "apidisabled", 0, <<>>, <<>>, NoQ),
     Payload("error", "blocked", 0, <<>>, <<>>, NoQ),
     Payload("error", "badtoken", 0, <<>>, <<>>, NoQ),
     Payload("obj", "", 0, Cont1, <<>>, PagesQ(<<EntA>>)),
     Payload("obj", "", 0, Cont2, <<>>, PagesQ(<<EntA>>)),
     Payload("obj", "", 0, <<>>, QcSingle, PagesQ(<<EntA>>)),
     Payload("obj", "", 0, <<>>, QcTwoInt, PagesQ(<<EntA>>)),
     Payload("obj", "", 0, <<>>, QcTwoStr, PagesQ(<<EntA>>)),
     Payload("obj", "", 0, <<>>, QcTwoLong, PagesQ(<<EntA>>))}
    \cup {Payload("error", "maxlag", l, <<>>, <<>>, NoQ) : l \in Lags}

(* `"error" in content`, `"continue" in data`, `"query-continue" in data`, `not data` *)
HasError(r) == r.kind = "error"
HasContinueAlways(r) == TRUE

HasContinue(r) == r.cont # <<>>
HasQueryContinue(r) == r.qc # <<>>
Falsy(r) == r.kind \in {"emptyobj", "emptylist"}

(***************************************************************************)
(* APIRequest.__getRaw: which exceptions the `except catcherror` clause    *)
(* catches.  With catcherror = None the clause raises TypeError in place   *)
(* of the transport exception.                                             *)
(***************************************************************************)
catcherrorAnyRequest(o, w) == ~(o.sleep >= w.maxwaittime)
catcherrorInclusive(o, w) == ~(o.sleep > w.maxwaittime \/ o.iswrite)
catcherrorNoCeiling(o, w) == ~o.iswrite

catcherror(o, w) == ~(o.sleep >= w.maxwaittime \/ o.iswrite)

(***************************************************************************)
(* APIRequest.__parseJSON.  tag "content": the parsed payload is returned; *)
(* "false": False is returned after a maxlag sleep of `slept` seconds      *)
(* (plus the fixed half second); "raise": err leaves the method.           *)
(***************************************************************************)
lagtimeUncapped(lag, w) == lag

lagtime(lag, w) == Min(lag, w.maxwaittime)

(* lines 328-337: data.seek(0) raises on an HTTPResponse (not seekable);   *)
(* on a GzipFile the seek works and `<str> in data.read()` raises          *)
(* TypeError because read() gives bytes                                    *)
exceptClause(r, gz) ==
    IF ~gz THEN [tag |-> "raise", err |-> "UnsupportedOperation", slept |-> -1]
    ELSE [tag |-> "raise", err |-> "TypeError", slept |-> -1]

parseJSON(w, r, gz) ==
    IF r.kind = "garbage" THEN exceptClause(r, gz)         \* json.loads raises
    ELSE IF r.kind = "number" THEN exceptClause(r, gz)     \* "error" in <number> raises
    ELSE IF HasError(r) /\ r.code = "maxlag"
         THEN [tag |-> "false", err |-> "", slept |-> lagtime(r.lag, w)]
    ELSE [tag |-> "content", err |-> "", slept |-> -1]

(* `while not data:` with its `if not data and type(data) is APIListResult: break` *)
LoopsAgainOnError(p, r) ==
    \/ p.tag = "false"
    \/ p.tag = "content" /\ (HasError(r) \/ (Falsy(r) /\ r.kind # "emptylist"))

LoopsAgain(p, r) ==
    \/ p.tag = "false"
    \/ p.tag = "content" /\ Falsy(r) /\ r.kind # "emptylist"

(* lines 175-178 and 200-203 *)
errorRaisedAnyRequest(o, r) == IF r.code = "blocked" THEN "UserBlocked" ELSE "APIError"

errorRaised(o, r) == IF o.iswrite /\ r.code = "blocked" THEN "UserBlocked" ELSE "APIError"

(***************************************************************************)
(* resultCombine(type, old, new) on the `query` sections.  The result is   *)
(* the set of outcomes the call can have: err is "" or the exception, ret  *)
(* the merged section.  The de-duplicating branch builds sets of item      *)
(* tuples and lists the union in the set's iteration order, which is any   *)
(* order.                                                                  *)
(***************************************************************************)
ToSet(s) == {s[i] : i \in 1..Len(s)}
Orderings(S) == {s \in [1..Cardinality(S) -> S] : \A x \in S : \E i \in DOMAIN s : s[i] = x}

(* lines 370-373 *)
mergedLists(retlist, newlist) == Orderings(ToSet(retlist) \cup ToSet(newlist))

(* lines 361-373, for one page key of new["query"]["pages"] *)
mergedPage(type, old, new, key) ==
    IF key \notin DOMAIN old.pages THEN {new.pages[key]}
    ELSE IF key \notin DOMAIN new.pages THEN {old.pages[key]}
    ELSE IF type \notin DOMAIN new.pages[key] THEN {old.pages[key]}
    ELSE IF type \notin DOMAIN old.pages[key]
         THEN {Put(old.pages[key], type, new.pages[key][type])}
    ELSE {Put(old.pages[key], type, l) : l \in mergedLists(old.pages[key][type], new.pages[key][type])}

resultCombine(type, old, new) ==
    LET KeyError == {[err |-> "KeyError", ret |-> old]}
        keys == DOMAIN old.pages \cup DOMAIN new.pages
        choices == UNION {mergedPage(type, old, new, k) : k \in keys}
    IN  IF ~new.hasquery THEN KeyError                              \* new["query"]
        ELSE IF type \in DOMAIN new.lists
             THEN IF ~old.hasquery \/ type \notin DOMAIN old.lists THEN KeyError
                  ELSE {[err |-> "", ret |-> [old EXCEPT !.lists[type] = @ \o new.lists[type]]]}
        ELSE IF ~new.haspages THEN KeyError                         \* new["query"]["pages"]
        ELSE IF DOMAIN new.pages = {} THEN {[err |-> "", ret |-> old]}
        ELSE IF ~old.hasquery \/ ~old.haspages THEN KeyError        \* old["query"]["pages"]
        ELSE {[err |-> "", ret |-> [old EXCEPT !.pages = f]] :
                 f \in {g \in [keys -> choices] : \A k \in keys : g[k] \in mergedPage(type, old, new, k)}}

(***************************************************************************)
(* APIRequest.__longQuery                                                  *)
(***************************************************************************)
KeyLen == [k \in {"imcontinue", "clcontinue", "gapcontinue", "gimcontinue"} |->
              IF k \in {"imcontinue", "clcontinue"} THEN 10 ELSE 11]
StartsWithG(k) == k \in {"gapcontinue", "gimcontinue"}

(* lines 220-247.  possiblecontinues and keylist are dict_keys views, so   *)
(* possiblecontinues[0] and keylist[0] raise TypeError; only the scan of   *)
(* several outer keys that finds a short inner key selects a pair.         *)
ShortPairs(qc) ==
    {ij \in UNION {{<<i, j>> : j \in 1..Len(qc[i].keys)} : i \in 1..Len(qc)} :
        KeyLen[qc[ij[1]].keys[ij[2]].key] < ShortKeyLen}
FirstPair(S) == CHOOSE ij \in S : \A o \in S : ij[1] < o[1] \/ (ij[1] = o[1] /\ ij[2] <= o[2])

selectKey(qc) ==
    LET TypeError == [err |-> "TypeError", key1 |-> "", key2 |-> "", val |-> StrV("")]
    IN  IF Len(qc) = 1 THEN TypeError                                \* line 224
        ELSE IF ShortPairs(qc) = {} THEN TypeError                   \* line 246
        ELSE LET ij == FirstPair(ShortPairs(qc))
             IN  [err |-> "", key1 |-> qc[ij[1]].key, key2 |-> qc[ij[1]].keys[ij[2]].key,
                  val |-> qc[ij[1]].keys[ij[2]].val]

RECURSIVE PopAll(_, _)
PopAll(d, keys) == IF keys = {} THEN d
                   ELSE LET k == CHOOSE x \in keys : TRUE IN PopAll(Pop(d, k), keys \ {k})

NoReq == [sleep |-> 0, data |-> EmptyMap, iswrite |-> FALSE, multipart |-> FALSE,
          encodeddata |-> urlencode(EmptyMap), headers |-> urlencodedHeaders(urlencode(EmptyMap)),
          request |-> Request(urlencode(EmptyMap), urlencodedHeaders(urlencode(EmptyMap)))]
NoLong == [continues |-> {}, generator |-> "", total |-> NoResp, poss |-> <<>>,
           key1 |-> "", key2 |-> "", req |-> NoReq]

(* when query() ends, the locals of __longQuery (the aggregate, the        *)
(* follow-up request, possiblecontinues) are gone; self._continues and    *)
(* self._generator stay, and the model keeps the pair the last pass        *)
(* selected                                                                *)
Released(lg) == [NoLong EXCEPT !.continues = lg.continues, !.generator = lg.generator,
                               !.key1 = lg.key1, !.key2 = lg.key2]

(* one pass of lines 220-259: from the top of the while loop to the new    *)
(* request.  params is self.data itself, so the object o is changed.       *)
longIter(w, o, lg, qc) ==
    LET sel == selectKey(qc)
        cont == IF sel.val.t = "int" THEN sel.val ELSE BytesV(sel.val.v)
        isgen == KeyLen[sel.key2] >= ShortKeyLen /\ StartsWithG(sel.key2)
        params == Put(IF isgen THEN PopAll(o.data, lg.continues) ELSE o.data, sel.key2, cont)
        lg0 == [lg EXCEPT !.poss = [i \in 1..Len(qc) |-> qc[i].key],
                          !.key1 = sel.key1, !.key2 = sel.key2]
        lg1 == [lg0 EXCEPT !.continues = IF isgen THEN @ ELSE @ \cup {sel.key2},
                           !.generator = IF isgen THEN sel.key2 ELSE @]
        o1 == [o EXCEPT !.data = params]
    IN  IF sel.err # "" THEN [err |-> sel.err, obj |-> o, long |-> lg0]
        ELSE IF APIRequestRaises(w, params, FALSE, FALSE)
             THEN [err |-> "AttributeError", obj |-> o1, long |-> lg1]
        ELSE [err |-> "", obj |-> o1,
              long |-> [lg1 EXCEPT !.req = APIRequest(w, params, FALSE, FALSE)]]

(* lines 261-262: resultCombine once per key of possiblecontinues; res is   *)
(* the payload req.query(False) returned, and new["query"] raises          *)
(* TypeError when it is a list or a string                                 *)
RECURSIVE combineAll(_, _, _)
combineAll(types, old, res) ==
    IF types = <<>> THEN {[err |-> "", ret |-> old]}
    ELSE IF res.kind \notin {"obj", "emptyobj"} THEN {[err |-> "TypeError", ret |-> old]}
    ELSE UNION {IF c.err # "" THEN {c} ELSE combineAll(Tail(types), c.ret, res) :
                   c \in resultCombine(Head(types), old, res.q)}

(***************************************************************************)
(* APIRequest.queryGen, lines 207-209: restore the saved request, then     *)
(* changeParam for each parameter of the `continue` mapping.               *)
(***************************************************************************)
RECURSIVE applyContinue(_, _)
applyContinue(o, cont) ==
    IF cont = <<>> THEN [obj |-> o, err |-> ""]
    ELSE LET c == changeParam(o, cont[1][1], cont[1][2])
         IN  IF c.err # "" THEN c ELSE applyContinue(c.obj, Tail(cont))

(***************************************************************************)
(* The state machine.                                                      *)
(***************************************************************************)
MaxWaits == {5, 7}
InitialDatas == {[k \in {"action"} |-> StrV("query")],
                 [k \in {"action", "format"} |-> IF k = "action" THEN StrV("query") ELSE StrV("xml")]}
CallerParams == {"format", "titles"}
CallerValues == {StrV("xml"), IntV("1")}

NoResult == [kind |-> "none", err |-> "", code |-> "", val |-> NoResp]
Raised(err, code) == [kind |-> "error", err |-> err, code |-> code, val |-> NoResp]
Gave(kind, val) == [kind |-> kind, err |-> "", code |-> "", val |-> val]
Op(name, param, value, resp) == [name |-> name, param |-> param, value |-> value, resp |-> resp]
RcIdle == [st |-> "idle", type |-> "", old |-> NoQ, new |-> NoQ, ret |-> NoQ, err |-> ""]
UeIdle == [st |-> "idle", query |-> <<>>, out |-> <<>>, err |-> ""]

Init ==
    /\ wiki \in [maxwaittime : MaxWaits, maxlag : {5}, assertval : {"user"}]
    /\ \E d \in InitialDatas, write \in BOOLEAN, multipart \in BOOLEAN :
          /\ self = APIRequest(wiki, d, write, multipart)
          /\ user = InitData(wiki, d, write)
          /\ op = Op("init", "format", IF "format" \in DOMAIN d THEN d["format"] ELSE StrV(""), NoResp)
    /\ pc = "idle"
    /\ call = [name |-> "init", querycontinue |-> FALSE]
    /\ gen = [st |-> "none", reqcopy |-> NoReq.request, last |-> NoResp, requested |-> 0, yielded |-> 0,
              born |-> 0]
    /\ long = NoLong
    /\ result = NoResult
    /\ log = <<>>
    /\ ops = 0
    /\ caught = 0
    /\ rc = RcIdle
    /\ ue = UeIdle

(* the caller calls changeParam(param, value) *)
ChangeParam(param, value) ==
    /\ pc = "idle" /\ ops < MaxOps
    /\ LET c == changeParam(self, param, value)
       IN  /\ self' = c.obj
           /\ result' = IF c.err = "" THEN Gave("return", NoResp) ELSE Raised(c.err, "")
           /\ user' = IF c.err = "APIError" THEN user ELSE Put(user, param, value)
    /\ op' = Op("changeParam", param, value, NoResp)
    /\ call' = [name |-> "changeParam", querycontinue |-> FALSE]
    /\ ops' = ops + 1
    /\ log' = <<>>
    /\ UNCHANGED <<wiki, pc, gen, long, caught, rc, ue>>

(* the caller calls setMultipart(multipart) *)
SetMultipart(multipart) ==
    /\ pc = "idle" /\ ops < MaxOps
    /\ self' = setMultipart(self, multipart)
    /\ result' = IF setMultipartRaises(self, multipart) THEN Raised("AttributeError", "")
                 ELSE Gave("return", NoResp)
    /\ op' = Op("setMultipart", "", StrV(""), NoResp)
    /\ call' = [name |-> "setMultipart", querycontinue |-> FALSE]
    /\ ops' = ops + 1
    /\ log' = <<>>
    /\ UNCHANGED <<wiki, pc, gen, long, user, caught, rc, ue>>

(* the caller calls query(querycontinue): control reaches the first __getRaw *)
Query(querycontinue) ==
    /\ pc = "idle" /\ ops < MaxOps
    /\ pc' = "query"
    /\ call' = [name |-> "query", querycontinue |-> querycontinue]
    /\ result' = NoResult
    /\ op' = Op("query", "", StrV(""), NoResp)
    /\ ops' = ops + 1
    /\ log' = <<>>
    /\ UNCHANGED <<wiki, self, gen, long, user, caught, rc, ue>>

(* the caller calls queryGen(): a generator object is made, no code of the body runs *)
QueryGen ==
    /\ pc = "idle" /\ ops < MaxOps /\ gen.st # "created"
    /\ gen' = [st |-> "created", reqcopy |-> NoReq.request, last |-> NoResp,
               requested |-> 0, yielded |-> 0, born |-> ops + 1]
    /\ result' = Gave("return", NoResp)
    /\ log' = <<>>
    /\ op' = Op("queryGen", "", StrV(""), NoResp)
    /\ call' = [name |-> "queryGen", querycontinue |-> FALSE]
    /\ ops' = ops + 1
    /\ UNCHANGED <<wiki, self, pc, long, user, caught, rc, ue>>

(* the caller asks the generator for the next page: the body runs from its *)
(* start (lines 191-192) or from the yield (lines 205-209) to __getRaw     *)
GenNext ==
    /\ pc = "idle" /\ gen.requested < MaxPages /\ gen.st \in {"created", "suspended"}
    /\ op' = Op("next", "", StrV(""), NoResp)
    /\ call' = [name |-> "next", querycontinue |-> FALSE]
    /\ log' = <<>>
    /\ UNCHANGED <<wiki, long, ops, user, caught, rc, ue>>
    /\ IF gen.st = "suspended" /\ ~HasContinue(gen.last)
       THEN /\ gen' = [gen EXCEPT !.st = "done", !.requested = @ + 1]
            /\ result' = Gave("stop", NoResp)
            /\ UNCHANGED <<self, pc>>
       ELSE LET c == IF gen.st = "created" THEN changeParam(self, "continue", StrV(""))
                     ELSE applyContinue([self EXCEPT !.request = gen.reqcopy], gen.last.cont)
                saved == IF gen.st = "created" THEN self.request ELSE gen.reqcopy
            IN  /\ self' = c.obj
                /\ gen' = [gen EXCEPT !.st = IF c.err = "" THEN "running" ELSE "failed",
                                      !.reqcopy = saved, !.requested = @ + 1]
                /\ pc' = IF c.err = "" THEN "gen" ELSE "idle"
                /\ result' = IF c.err = "" THEN NoResult ELSE Raised(c.err, "")

Cur == IF pc = "long" THEN long.req ELSE self
Who == IF pc = "long" THEN "req" ELSE "self"
Event(ev, r, kind, dur) ==
    [who |-> Who, ev |-> ev, sent |-> Cur.request,
     resp |-> r, sleepkind |-> kind, slept |-> dur]
(* the environment keeps a call going only within the bound: the exchange *)
(* being handled may be followed by another exchange of `who` (the        *)
(* original request, or the follow-up requests of the legacy loop) while  *)
(* the exchanges of `who` in this call stay within MaxExch                 *)
Exchanges(who) == Cardinality({i \in 1..Len(log) : log[i].who = who})
MayGoOn(who) == Exchanges(who) + (IF who = Who THEN 1 ELSE 0) < MaxExch

EndWithError(err, code) ==
    /\ pc' = "idle"
    /\ result' = Raised(err, code)
    /\ gen' = IF pc = "gen" THEN [gen EXCEPT !.st = "failed"] ELSE gen
    /\ long' = IF pc = "long" THEN Released(long) ELSE long

(* __getRaw: opener.open raises *)
TransportFail ==
    /\ pc \in {"query", "gen", "long"}
    /\ op' = Op("fail", "", StrV(""), NoResp)
    /\ UNCHANGED <<wiki, call, ops, user, rc, ue>>
    /\ IF catcherror(Cur, wiki)
       THEN /\ MayGoOn(Who)
            /\ log' = Append(log, Event("fail", NoResp, "backoff", Cur.sleep))
            /\ IF pc = "long"
               THEN long' = [long EXCEPT !.req.sleep = @ + SleepStep] /\ UNCHANGED <<self, caught>>
               ELSE self' = [self EXCEPT !.sleep = @ + SleepStep] /\ caught' = caught + 1
                    /\ long' = long
            /\ UNCHANGED <<pc, gen, result>>
       ELSE /\ log' = Append(log, Event("fail", NoResp, "none", -1))
            /\ EndWithError("TypeError", "")
            /\ UNCHANGED <<self, caught>>

(* __longQuery from the top of its while loop *)
LongLoop(lg, qc) ==
    LET it == longIter(wiki, self, lg, qc)
    IN  /\ it.err = "" => MayGoOn("req")
        /\ self' = it.obj
        /\ long' = IF it.err = "" THEN it.long ELSE Released(it.long)
        /\ gen' = gen
        /\ pc' = IF it.err = "" THEN "long" ELSE "idle"
        /\ result' = IF it.err = "" THEN result ELSE Raised(it.err, "")

Return(val) ==
    /\ pc' = "idle"
    /\ result' = Gave("return", val)
    /\ UNCHANGED <<self, long, gen>>

(* query(), lines 179-181 *)
AfterQuery(r) ==
    IF HasQueryContinue(r) /\ call.querycontinue
    THEN LongLoop([NoLong EXCEPT !.total = r, !.req = long.req], r.qc)
    ELSE Return(r)

(* __longQuery, lines 260-264: req.query(False) returned r *)
AfterReqQuery(r) ==
    \E c \in combineAll(long.poss, long.total.q, r) :
       IF c.err # ""
       THEN /\ pc' = "idle" /\ result' = Raised(c.err, "")
            /\ long' = Released(long)
            /\ UNCHANGED <<self, gen>>
       ELSE IF HasQueryContinue(r)
            THEN LongLoop([long EXCEPT !.total.q = c.ret], r.qc)
            ELSE /\ pc' = "idle"
                 /\ result' = Gave("return", [long.total EXCEPT !.q = c.ret])
                 /\ long' = Released(long)
                 /\ UNCHANGED <<self, gen>>

(* queryGen(), line 204 *)
Yield(r) ==
    /\ pc' = "idle"
    /\ result' = Gave("yield", r)
    /\ gen' = [gen EXCEPT !.st = "suspended", !.last = r, !.yielded = @ + 1]
    /\ UNCHANGED <<self, long>>

(* __getRaw returns the response r (gzip-encoded or not), then __parseJSON *)
(* and the code of query / queryGen / __longQuery up to the next exchange  *)
Receive(r, gz) ==
    /\ pc \in {"query", "gen", "long"}
    /\ op' = Op("exchange", "", StrV(""), r)
    /\ UNCHANGED <<wiki, call, ops, user, caught, rc, ue>>
    /\ LET p == parseJSON(wiki, r, gz)
       IN  IF p.tag = "raise"
           THEN /\ log' = Append(log, Event("resp", r, "none", -1))
                /\ EndWithError(p.err, "")
                /\ self' = self
           ELSE IF LoopsAgain(p, r)
           THEN /\ MayGoOn(Who)
                /\ log' = Append(log, Event("resp", r, IF p.tag = "false" THEN "lag" ELSE "none", p.slept))
                /\ UNCHANGED <<self, long, pc, gen, result>>
           ELSE /\ log' = Append(log, Event("resp", r, "none", -1))
                /\ IF HasError(r)
                   THEN EndWithError(errorRaised(Cur, r), r.code) /\ self' = self
                   ELSE CASE pc = "query" -> AfterQuery(r)
                          [] pc = "gen" -> Yield(r)
                          [] pc = "long" -> AfterReqQuery(r)

Next ==
    \/ \E param \in CallerParams, value \in CallerValues : ChangeParam(param, value)
    \/ \E multipart \in BOOLEAN : SetMultipart(multipart)
    \/ \E querycontinue \in BOOLEAN : Query(querycontinue)
    \/ QueryGen
    \/ GenNext
    \/ TransportFail
    \/ \E r \in Responses, gz \in BOOLEAN : Receive(r, gz)

Spec == Init /\ [][Next]_vars

(***************************************************************************)
(* resultCombine called on its own with bounded inputs.                    *)
(***************************************************************************)
RcEntries == {EntA, EntArev, EntB}
RcLists == UNION {[1..n -> RcEntries] : n \in 0..MaxEntries}
RcQueries ==
    {PagesQ(l) : l \in RcLists} \cup {ListQ(l) : l \in RcLists}
    \cup {NoQ,
          [hasquery |-> TRUE, lists |-> [k \in {} |-> <<>>], haspages |-> TRUE,
           pages |-> [p \in {"1"} |-> [t \in {} |-> <<>>]]],
          [hasquery |-> TRUE, lists |-> [k \in {} |-> <<>>], haspages |-> TRUE,
           pages |-> [p \in {"2"} |-> [t \in {"images"} |-> <<EntB>>]]]}

InitRC ==
    /\ wiki = [maxwaittime |-> 5, maxlag |-> 5, assertval |-> "user"]
    /\ self = APIRequest(wiki, [k \in {"action"} |-> StrV("query")], FALSE, FALSE)
    /\ user = self.data
    /\ op = Op("init", "format", StrV(""), NoResp)
    /\ pc = "idle"
    /\ call = [name |-> "init", querycontinue |-> FALSE]
    /\ gen = [st |-> "none", reqcopy |-> NoReq.request, last |-> NoResp, requested |-> 0, yielded |-> 0,
              born |-> 0]
    /\ long = NoLong
    /\ result = NoResult
    /\ log = <<>>
    /\ ops = 0
    /\ caught = 0
    /\ ue = UeIdle
    /\ rc \in [st : {"in"}, type : {"images", "allpages"}, old : RcQueries, new : RcQueries,
               ret : {NoQ}, err : {""}]

Combine ==
    /\ rc.st = "in"
    /\ \E c \in resultCombine(rc.type, rc.old, rc.new) :
          rc' = [rc EXCEPT !.st = "out", !.ret = c.ret, !.err = c.err]
    /\ UNCHANGED <<wiki, self, pc, call, gen, long, result, log, op, ops, user, caught, ue>>

NextRC == Combine

SpecRC == InitRC /\ [][NextRC]_vars

(***************************************************************************)
(* urlencode(query, 1) called on its own with bounded inputs, character by *)
(* character.  A text is a sequence of characters; the body is a sequence  *)
(* of tokens: a character quote_plus leaves alone, "+", a %XX escape, or   *)
(* one of the separators "=" and "&" that urlencode itself writes.         *)
(***************************************************************************)
Chars == {"a", " ", "&", "U+00E9"}
Digits == {"7"}

(* quote_plus on one character: a space becomes "+", a reserved character  *)
(* its escape, a non-ASCII character the escapes of its UTF-8 bytes        *)
QuoteChar(c) ==
    CASE c = " " -> <<"+">>
      [] c = "&" -> <<"%26">>
      [] c = "=" -> <<"%3D">>
      [] c = "U+00E9" -> <<"%C3", "%A9">>
      [] OTHER -> <<c>>

RECURSIVE quote_plus(_)
quote_plus(text) == IF text = <<>> THEN <<>> ELSE QuoteChar(Head(text)) \o quote_plus(Tail(text))

(* lines 410-435 for one (k, v) item: the "k=v" strings appended to l, or  *)
(* the exception.  A value that is neither str nor int/float reaches       *)
(* `v.type(str)` at line 418, which raises AttributeError, so the sequence *)
(* branch of lines 426-435 is never reached.                               *)
urlencodeItem(k, v) ==
    IF v.t \in {"str", "int"}
    THEN [err |-> "", l |-> << quote_plus(k) \o <<"=">> \o quote_plus(v.v) >>]
    ELSE [err |-> "AttributeError", l |-> <<>>]

RECURSIVE urlencodeList(_)
urlencodeList(query) ==
    IF query = <<>> THEN [err |-> "", l |-> <<>>]
    ELSE LET item == urlencodeItem(query[1][1], query[1][2])
             rest == urlencodeList(Tail(query))
         IN  IF item.err # "" THEN item
             ELSE IF rest.err # "" THEN rest
             ELSE [err |-> "", l |-> item.l \o rest.l]

(* "&".join(l) *)
RECURSIVE Join(_)
Join(l) == IF l = <<>> THEN <<>>
           ELSE IF Len(l) = 1 THEN l[1]
           ELSE l[1] \o <<"&">> \o Join(Tail(l))

urlencodeDoseq(query) ==
    LET r == urlencodeList(query)
    IN  IF r.err # "" THEN [err |-> r.err, out |-> <<>>] ELSE [err |-> "", out |-> Join(r.l)]

Texts(S) == UNION {[1..n -> S] : n \in 0..MaxLen}
UeScalars == {[t |-> "str", v |-> x] : x \in Texts(Chars)} \cup {[t |-> "int", v |-> <<d>>] : d \in Digits}
UeElements == {[t |-> "str", v |-> <<"a">>], [t |-> "str", v |-> <<" ">>], [t |-> "int", v |-> <<"7">>]}
UeValues == UeScalars \cup {[t |-> "list", v |-> x] : x \in Texts(UeElements)}
UeKeys == {<<"k">>, <<"a", " ">>}
(* the items of a dict: at most MaxParams pairs, no key twice *)
UeQueries ==
    {q \in UNION {[1..n -> UeKeys \X UeValues] : n \in 0..MaxParams} :
        \A i, j \in 1..Len(q) : q[i][1] = q[j][1] => i = j}

InitUE ==
    /\ wiki = [maxwaittime |-> 5, maxlag |-> 5, assertval |-> "user"]
    /\ self = APIRequest(wiki, [k \in {"action"} |-> StrV("query")], FALSE, FALSE)
    /\ user = self.data
    /\ op = Op("init", "format", StrV(""), NoResp)
    /\ pc = "idle"
    /\ call = [name |-> "init", querycontinue |-> FALSE]
    /\ gen = [st |-> "none", reqcopy |-> NoReq.request, last |-> NoResp, requested |-> 0, yielded |-> 0,
              born |-> 0]
    /\ long = NoLong
    /\ result = NoResult
    /\ log = <<>>
    /\ ops = 0
    /\ caught = 0
    /\ rc = RcIdle
    /\ ue \in [st : {"in"}, query : UeQueries, out : {<<>>}, err : {""}]

Encode ==
    /\ ue.st = "in"
    /\ LET r == urlencodeDoseq(ue.query)
       IN  ue' = [ue EXCEPT !.st = "out", !.out = r.out, !.err = r.err]
    /\ UNCHANGED <<wiki, self, pc, call, gen, long, result, log, op, ops, user, caught, rc>>

NextUE == Encode

SpecUE == InitUE /\ [][NextUE]_vars

(***************************************************************************)
(* Properties.                                                             *)
(***************************************************************************)
Last == log[Len(log)]
IsMaxlag(e) == e.ev = "resp" /\ e.resp.kind = "error" /\ e.resp.code = "maxlag"
Legacy(r) == r.qc # <<>> /\ call.querycontinue
Fields(d) == [k \in DOMAIN d |-> d[k].v]
RECURSIVE Overwrite(_, _)
Overwrite(fields, cont) ==
    IF cont = <<>> THEN fields
    ELSE Overwrite([k \in DOMAIN fields \cup {cont[1][1]} |->
                       IF k = cont[1][1] THEN cont[1][2].v ELSE fields[k]], Tail(cont))
SameEntry(e1, e2) == ToSet(e1) = ToSet(e2)

(* C1: a transport failure of a write request is not caught: it is the     *)
(* last exchange of the call, no backoff sleep is made, the delay keeps    *)
(* its initial value and the call has ended in an error, for every         *)
(* maximum wait time.                                                      *)
C1_WriteFailureNotRetried ==
    \A i \in 1..Len(log) :
        (log[i].ev = "fail" /\ log[i].who = "self" /\ self.iswrite) =>
            /\ i = Len(log)
            /\ log[i].sleepkind = "none"
            /\ \A j \in 1..Len(log) : log[j].sleepkind # "backoff"
            /\ self.sleep = InitialSleep
            /\ pc = "idle"
            /\ result.kind = "error"

C1_Witness ==
    /\ self.iswrite /\ call.name \in {"query", "next"}
    /\ Len(log) >= 1 /\ Last.ev = "fail"
    /\ self.sleep < wiki.maxwaittime
    /\ result.kind = "error"

(* C2: in query(), while the server has answered only maxlag errors the    *)
(* call goes on without an error, each of them is followed by one sleep of *)
(* min(reported lag, maximum wait time) and the same request is sent       *)
(* again; the non-empty success payload that follows them ends the call    *)
(* and is its result.                                                      *)
C2_PlainSuccess(r) == r.kind \in {"obj", "str"} /\ ~Legacy(r)

C2_MaxlagThenSuccess ==
    (call.name = "query" /\ Len(log) >= 1
        /\ \A i \in 1..(Len(log) - 1) : IsMaxlag(log[i])) =>
       /\ \A i \in 1..Len(log) :
             /\ log[i].sent = log[1].sent
             /\ IsMaxlag(log[i]) =>
                   /\ log[i].sleepkind = "lag"
                   /\ log[i].slept = Min(log[i].resp.lag, wiki.maxwaittime)
       /\ IsMaxlag(Last) => pc = "query" /\ result.kind = "none"
       /\ (Last.ev = "resp" /\ C2_PlainSuccess(Last.resp)) =>
             pc = "idle" /\ result = Gave("return", Last.resp)

C2_Witness ==
    /\ call.name = "query" /\ Len(log) = 2
    /\ IsMaxlag(log[1]) /\ log[1].resp.lag > wiki.maxwaittime
    /\ log[1].slept = wiki.maxwaittime
    /\ result = Gave("return", log[2].resp) /\ log[2].resp.kind = "obj"

(* C3: the generator makes an exchange only while one next() call is       *)
(* outstanding (pages asked for = pages yielded + 1); a yield hands        *)
(* control back to the caller; the pages yielded never exceed the pages    *)
(* asked for; and after a page without `continue` the next call ends the   *)
(* sequence with no exchange.                                              *)
C3_LazyPages ==
    [][ /\ gen'.yielded <= gen'.requested
        /\ (op'.name \in {"exchange", "fail"} /\ call.name = "next") =>
               /\ pc = "gen" /\ gen.st = "running"
               /\ gen.requested = gen.yielded + 1
        /\ gen'.yielded > gen.yielded =>
               /\ gen'.yielded = gen.yielded + 1
               /\ pc' = "idle" /\ gen'.st = "suspended" /\ result'.kind = "yield"
        /\ (op'.name = "next" /\ gen.st = "suspended" /\ gen.last.cont = <<>>) =>
               /\ pc' = "idle" /\ gen'.st = "done" /\ result'.kind = "stop"
               /\ log' = <<>>
        /\ pc' = "gen" => gen'.st = "running"
      ]_vars

C3_Witness ==
    /\ gen.st = "done" /\ gen.yielded = 2 /\ gen.requested = 3
    /\ result.kind = "stop" /\ log = <<>>

(* C4: the request pending for a follow-up page of queryGen() carries the  *)
(* saved original request's parameters overwritten by the last page's      *)
(* `continue` mapping, and nothing else (stated for runs during which the  *)
(* caller makes no other call on the request object).                      *)
C4_FollowUpIsOriginalPlusContinue ==
    (pc = "gen" /\ gen.yielded >= 1 /\ gen.born = ops) =>
        self.request.data.fields = Overwrite(gen.reqcopy.data.fields, gen.last.cont)

(* C5: the format parameter is "json" at all times, whatever format the    *)
(* caller gave the constructor, and changeParam("format", v) raises        *)
(* APIError and leaves the parameters, the body and the headers as they    *)
(* were.                                                                   *)
C5_FormatIsJson ==
    /\ [](/\ self.data["format"] = StrV("json")
          /\ pc = "long" => long.req.data["format"] = StrV("json"))
    /\ [][(op'.name = "changeParam" /\ op'.param = "format") =>
             /\ result' = Raised("APIError", "")
             /\ self'.data = self.data
             /\ self'.encodeddata = self.encodeddata
             /\ self'.headers = self.headers
             /\ self'.request = self.request]_vars

C5_Witness ==
    /\ op.name = "changeParam" /\ op.param = "format" /\ op.value = StrV("xml")
    /\ result = Raised("APIError", "")
    /\ self.data["format"] = StrV("json")
    /\ "titles" \in DOMAIN self.data

(* C6: no payload with an `error` key is returned or yielded; an error     *)
(* payload other than maxlag is the last exchange of the call, which ends  *)
(* with UserBlocked exactly when the request that made the exchange is a   *)
(* write request and the code is "blocked", and else with APIError         *)
(* carrying the code.                                                      *)
C6_ErrorPayloadRaises ==
    /\ result.kind \in {"return", "yield"} => result.val.kind # "error"
    /\ \A i \in 1..Len(log) :
          (log[i].ev = "resp" /\ log[i].resp.kind = "error" /\ log[i].resp.code # "maxlag") =>
              /\ i = Len(log)
              /\ pc = "idle"
              /\ result.kind = "error"
              /\ result.code = log[i].resp.code
              /\ result.err = IF log[i].who = "self" /\ self.iswrite /\ log[i].resp.code = "blocked"
                              THEN "UserBlocked" ELSE "APIError"

C6_Witness ==
    /\ ~self.iswrite /\ Len(log) >= 1
    /\ Last.ev = "resp" /\ Last.resp.kind = "error" /\ Last.resp.code = "blocked"
    /\ result = Raised("APIError", "blocked")

(* C7: in query(), a response that parses as JSON and has no `error` key   *)
(* (and starts no legacy continuation) ends the call after that exchange   *)
(* and is its result, whatever its shape: object, empty object, empty      *)
(* list, primitive.                                                        *)
C7_ParsedPayloadIsReturned ==
    (call.name = "query" /\ Len(log) >= 1 /\ Last.who = "self" /\ Last.ev = "resp"
        /\ Last.resp.kind \in {"obj", "emptyobj", "emptylist", "number", "str"}
        /\ ~Legacy(Last.resp)) =>
       pc = "idle" /\ result = Gave("return", Last.resp)

(* C8: in query(querycontinue=True), after a first response whose          *)
(* `query-continue` has one outer key with one inner key, one follow-up    *)
(* request is pending that carries the original parameters plus the inner  *)
(* key with the continuation value; when its response has no               *)
(* `query-continue` the aggregate is returned.                             *)
C8_SinglePair(qc) == Len(qc) = 1 /\ Len(qc[1].keys) = 1

C8_SingleKeyFollowUp ==
    (call.name = "query" /\ call.querycontinue /\ Len(log) >= 1
        /\ log[1].ev = "resp" /\ C8_SinglePair(log[1].resp.qc)) =>
       /\ Len(log) = 1 =>
             /\ pc = "long"
             /\ long.req.request.data.fields =
                   [k \in DOMAIN log[1].sent.data.fields \cup {log[1].resp.qc[1].keys[1].key} |->
                       IF k = log[1].resp.qc[1].keys[1].key
                       THEN log[1].resp.qc[1].keys[1].val.v ELSE log[1].sent.data.fields[k]]
       /\ (Len(log) = 2 /\ log[2].ev = "resp" /\ log[2].resp.kind = "obj" /\ log[2].resp.qc = <<>>) =>
             pc = "idle" /\ result.kind = "return"

(* C9: after resultCombine on the per-page path, for a page that has the   *)
(* property in the aggregate and in the new page, the merged list holds    *)
(* every entry of both lists and no two of its entries have the same set   *)
(* of field/value pairs.                                                   *)
C9_MergedListHasNoDuplicates ==
    (rc.st = "out" /\ rc.err = "" /\ rc.type = "images"
        /\ rc.old.haspages /\ rc.new.haspages
        /\ "1" \in DOMAIN rc.old.pages /\ "1" \in DOMAIN rc.new.pages
        /\ "images" \in DOMAIN rc.old.pages["1"] /\ "images" \in DOMAIN rc.new.pages["1"]) =>
       LET merged == rc.ret.pages["1"]["images"]
       IN  /\ ToSet(rc.old.pages["1"]["images"]) \subseteq ToSet(merged)
           /\ ToSet(rc.new.pages["1"]["images"]) \subseteq ToSet(merged)
           /\ \A i, j \in 1..Len(merged) : SameEntry(merged[i], merged[j]) => i = j

(* C10: the first request of every queryGen() run carries the parameters   *)
(* the caller supplied plus continue = "" (stated for request objects on   *)
(* which the legacy loop has tracked no continuation parameter).           *)
C10_FirstRequestOfRun ==
    (pc = "gen" /\ gen.yielded = 0 /\ long.continues = {} /\ long.generator = "") =>
        self.request.data.fields = Fields(Put(user, "continue", StrV("")))

(* C11: a response that does not parse and holds the "API is not enabled"  *)
(* message ends the call at once with APIDisabled; one that does not parse *)
(* and does not hold the message raises nothing and the same request is    *)
(* sent again.                                                             *)
C11_ParseFailure ==
    \A i \in 1..Len(log) :
        (log[i].ev = "resp" /\ log[i].resp.kind = "garbage") =>
            IF log[i].resp.code = "apidisabled"
            THEN i = Len(log) /\ pc = "idle" /\ result = Raised("APIDisabled", "")
            ELSE \/ i < Len(log) /\ log[i + 1].sent = log[i].sent
                 \/ i = Len(log) /\ pc # "idle" /\ result.kind = "none" /\ Cur.request = log[i].sent

(* C12: a terminal error of a follow-up request of the legacy loop (an     *)
(* error payload other than maxlag, a body that does not parse, a          *)
(* transport failure that is not caught) is the last exchange of query(),  *)
(* which ends with an error and hands no aggregate to the caller; an error *)
(* payload ends it with APIError carrying the payload's code.              *)
C12_TerminalError(e) ==
    \/ e.ev = "fail" /\ e.sleepkind = "none"
    \/ e.ev = "resp" /\ e.resp.kind \in {"garbage", "number"}
    \/ e.ev = "resp" /\ e.resp.kind = "error" /\ e.resp.code # "maxlag"

C12_FollowUpErrorEndsQuery ==
    \A i \in 1..Len(log) :
        (log[i].who = "req" /\ C12_TerminalError(log[i])) =>
            /\ i = Len(log)
            /\ pc = "idle"
            /\ result.kind = "error" /\ result.val = NoResp
            /\ (log[i].ev = "resp" /\ log[i].resp.kind = "error") =>
                   result = Raised("APIError", log[i].resp.code)

C12_Witness ==
    /\ call.name = "query" /\ Len(log) = 3
    /\ log[2].who = "req" /\ log[2].ev = "resp" /\ log[2].resp.kind = "obj"
    /\ log[3].who = "req" /\ log[3].ev = "resp" /\ log[3].resp.kind = "error"
    /\ result = Raised("APIError", "badtoken")

(* C13: urlencode(query, 1) raises nothing, and decoding its output (split *)
(* at "&" and "=", unquote each side) gives the query's pairs back: one    *)
(* pair for a string or a number, and for a sequence of n elements n pairs *)
(* with the same key, one per element, in order.                           *)
RECURSIVE C13_Split(_, _)
C13_Split(tokens, sep) ==
    IF tokens = <<>> THEN << <<>> >>
    ELSE LET rest == C13_Split(Tail(tokens), sep)
         IN  IF Head(tokens) = sep THEN << <<>> >> \o rest
             ELSE << <<Head(tokens)>> \o rest[1] >> \o Tail(rest)

RECURSIVE C13_Unquote(_)
C13_Unquote(tokens) ==
    IF tokens = <<>> THEN <<>>
    ELSE IF Head(tokens) = "+" THEN <<" ">> \o C13_Unquote(Tail(tokens))
    ELSE IF Head(tokens) = "%26" THEN <<"&">> \o C13_Unquote(Tail(tokens))
    ELSE IF Head(tokens) = "%3D" THEN <<"=">> \o C13_Unquote(Tail(tokens))
    ELSE IF Head(tokens) = "%C3" /\ Len(tokens) >= 2 /\ tokens[2] = "%A9"
         THEN <<"U+00E9">> \o C13_Unquote(Tail(Tail(tokens)))
    ELSE <<Head(tokens)>> \o C13_Unquote(Tail(tokens))

C13_Decode(body) ==
    IF body = <<>> THEN <<>>
    ELSE LET parts == C13_Split(body, "&")
         IN  [i \in 1..Len(parts) |->
                 LET kv == C13_Split(parts[i], "=")
                 IN  <<C13_Unquote(kv[1]), IF Len(kv) >= 2 THEN C13_Unquote(kv[2]) ELSE <<>> >>]

RECURSIVE C13_Pairs(_)
C13_Pairs(query) ==
    IF query = <<>> THEN <<>>
    ELSE LET k == query[1][1]
             v == query[1][2]
         IN  (IF v.t = "list" THEN [i \in 1..Len(v.v) |-> <<k, v.v[i].v>>] ELSE << <<k, v.v>> >>)
             \o C13_Pairs(Tail(query))

C13_RoundTrip ==
    ue.st = "out" => ue.err = "" /\ C13_Decode(ue.out) = C13_Pairs(ue.query)

(* C14: a non-write request on which no failure was caught before, and     *)
(* whose transport fails on every attempt of a call: the i-th attempt is   *)
(* made with delay 5 + 5 * (i - 1); the failure is caught exactly when     *)
(* that delay is below the maximum wait M, the sleep is then that delay    *)
(* and the delay grows by 5; the first attempt with delay >= M ends the    *)
(* call with an exception, so the call ends after exactly                  *)
(* max(1, ceil(M / 5)) attempts.                                           *)
C14_Ceil(m) == (m + SleepStep - 1) \div SleepStep
C14_Attempts(m) == IF C14_Ceil(m) >= 1 THEN C14_Ceil(m) ELSE 1
C14_Delay(i) == InitialSleep + SleepStep * (i - 1)
C14_Backoffs == Cardinality({i \in 1..Len(log) : log[i].sleepkind = "backoff"})

C14_BackoffAttempts ==
    (/\ ~self.iswrite /\ call.name \in {"query", "next"} /\ Len(log) >= 1
     /\ \A i \in 1..Len(log) : log[i].ev = "fail" /\ log[i].who = "self"
     /\ caught = C14_Backoffs) =>
        /\ \A i \in 1..Len(log) :
              /\ log[i].sleepkind = "backoff" <=> C14_Delay(i) < wiki.maxwaittime
              /\ log[i].sleepkind = "backoff" => log[i].slept = C14_Delay(i)
              /\ log[i].sleepkind # "backoff" => i = Len(log)
        /\ self.sleep = InitialSleep + SleepStep * C14_Backoffs
        /\ Len(log) <= C14_Attempts(wiki.maxwaittime)
        /\ pc = "idle" <=> Len(log) = C14_Attempts(wiki.maxwaittime)
        /\ pc = "idle" => result.kind = "error"

C14_Witness ==
    /\ ~self.iswrite /\ call.name = "query" /\ wiki.maxwaittime = 7
    /\ Len(log) = 2 /\ log[1].ev = "fail" /\ log[1].sleepkind = "backoff" /\ log[1].slept = 5
    /\ log[2].ev = "fail" /\ log[2].sleepkind = "none"
    /\ pc = "idle" /\ result.kind = "error"

(* C19: the delay of the request object never goes down and changes only   *)
(* when a transport failure is caught, by +5, which happens only while it  *)
(* is below the maximum wait M; a response (success, maxlag, unparseable)  *)
(* leaves it unchanged; a transport failure met with the delay at M or     *)
(* above ends the call at once; so over the object's whole life the        *)
(* caught failures number at most max(0, ceil(M / 5) - 1).                 *)
C19_DelayNeverReset ==
    /\ [](/\ self.sleep = InitialSleep + SleepStep * caught
          /\ caught <= (IF C14_Ceil(wiki.maxwaittime) >= 1 THEN C14_Ceil(wiki.maxwaittime) - 1 ELSE 0))
    /\ [][/\ self'.sleep >= self.sleep
          /\ self'.sleep # self.sleep =>
                /\ op'.name = "fail" /\ pc # "long"
                /\ self.sleep < wiki.maxwaittime
                /\ self'.sleep = self.sleep + SleepStep
          /\ op'.name = "exchange" => self'.sleep = self.sleep
          /\ (op'.name = "fail" /\ pc # "long" /\ self.sleep >= wiki.maxwaittime) =>
                pc' = "idle" /\ result'.kind = "error" /\ caught' = caught]_vars

C19_Witness ==
    /\ ~self.iswrite /\ call.name = "next" /\ gen.yielded >= 1
    /\ caught = 1 /\ self.sleep = 10 /\ wiki.maxwaittime = 7
    /\ Len(log) = 1 /\ log[1].ev = "fail" /\ log[1].sleepkind = "none"
    /\ pc = "idle" /\ result.kind = "error"

(* C20: within one query() call a write request that got a response is     *)
(* sent again only when that response was a maxlag error.                  *)
C20_WriteResentOnlyAfterMaxlag ==
    \A i \in 1..(Len(log) - 1) :
        (self.iswrite /\ call.name = "query" /\ log[i].who = "self" /\ log[i].ev = "resp"
            /\ log[i + 1].who = "self") =>
           IsMaxlag(log[i])

(* C17: at all times the body, the headers and the pending HTTP request    *)
(* are the encoding, in the current mode, of the current parameters.       *)
C17_Body(o) == IF o.multipart THEN multipart_encode(o.data) ELSE urlencode(o.data)
C17_Headers(o) == IF o.multipart THEN multipartHeaders(C17_Body(o)) ELSE urlencodedHeaders(C17_Body(o))

C17_EncodingConsistent ==
    /\ self.encodeddata = C17_Body(self)
    /\ self.headers = C17_Headers(self)
    /\ self.request = Request(C17_Body(self), C17_Headers(self))

(* C18: when a query() call has ended on a request object that was never   *)
(* used with queryGen(), the object's parameters are the ones the caller   *)
(* supplied: the legacy loop has added or removed none.                    *)
C18_OriginalUnchanged ==
    (pc = "idle" /\ call.name = "query" /\ gen.st = "none") => self.data = user

(* The pair lines 220-247 are written to select: the first (outer, inner)  *)
(* pair in iteration order whose inner key is shorter than 11 characters,  *)
(* else the first outer key with its first inner key.                      *)
ExpectedPair(qc) == IF ShortPairs(qc) # {} THEN FirstPair(ShortPairs(qc)) ELSE <<1, 1>>
ExpectedKey1(qc) == qc[ExpectedPair(qc)[1]].key
ExpectedKey2(qc) == qc[ExpectedPair(qc)[1]].keys[ExpectedPair(qc)[2]].key
IsGeneratorKey(k) == KeyLen[k] >= ShortKeyLen /\ StartsWithG(k)
(* the last exchange is a response the legacy loop takes its next pair from *)
LoopInput == /\ call.name = "query" /\ call.querycontinue /\ Len(log) >= 1
             /\ Last.ev = "resp" /\ Last.resp.kind = "obj" /\ Last.resp.qc # <<>>

(* C15: from a first response whose `query-continue` has several outer     *)
(* keys the loop selects the first pair in iteration order whose inner key *)
(* is shorter than 11 characters, and when there is none the first outer   *)
(* key with its first inner key.                                           *)
C15_KeySelection ==
    (LoopInput /\ Last.who = "self" /\ Len(Last.resp.qc) >= 2) =>
        /\ long.key1 = ExpectedKey1(Last.resp.qc)
        /\ long.key2 = ExpectedKey2(Last.resp.qc)

(* C16: when the pair to select has a generator key (at least 11           *)
(* characters, starting with "g") a follow-up request is issued that       *)
(* carries the key and none of the continuation parameters tracked before; *)
(* a follow-up request issued for another key carries that key and every   *)
(* continuation parameter tracked so far.                                  *)
C16_GeneratorSupersedes ==
    LoopInput =>
        LET k == ExpectedKey2(Last.resp.qc)
        IN  /\ IsGeneratorKey(k) =>
                  /\ pc = "long"
                  /\ k \in DOMAIN long.req.data
                  /\ \A c \in long.continues : c \notin DOMAIN long.req.data
            /\ (~IsGeneratorKey(k) /\ pc = "long") =>
                  /\ k \in DOMAIN long.req.data
                  /\ long.continues \subseteq DOMAIN long.req.data
====
